---- MODULE Spec2Model ----
(***************************************************************************)
(* A model of notes-cli's note file format (note.go): NewNote, Note.Create,*)
(* LoadNote, Note.ReadBodyN and WalkNotes.                                 *)
(*                                                                         *)
(* Strings are sequences of one-character strings, so that prefixes,       *)
(* slicing, trimming and splitting are computed as the Go code computes    *)
(* them.  A path is the sequence of its cleaned components.  A file's      *)
(* content is its byte sequence, newlines included.  An instant is a       *)
(* second count and a nanosecond part; its RFC3339 text is abstracted to   *)
(* one digit per second count, which keeps what the format does: it drops  *)
(* the sub-second part and it can fail to parse.                           *)
(***************************************************************************)
EXTENDS Integers, Sequences, FiniteSets, TLC

VARIABLES files, note, tagsArg, fileArg, newErr, written, created, loaded, body,
          todo, visited, parsed, walkRes

vars == <<files, note, tagsArg, fileArg, newErr, written, created, loaded, body,
          todo, visited, parsed, walkRes>>

(***************************************************************************)
(* Strings                                                                 *)
(***************************************************************************)
NL == "\n"

IsSpace(ch) == ch \in {" ", "\t", "\r", "\n"}

HasPrefix(s, p) == Len(s) >= Len(p) /\ SubSeq(s, 1, Len(p)) = p

HasSuffix(s, p) == Len(s) >= Len(p) /\ SubSeq(s, Len(s) - Len(p) + 1, Len(s)) = p

TrimSuffix(s, p) == IF HasSuffix(s, p) THEN SubSeq(s, 1, Len(s) - Len(p)) ELSE s

\* s[k:] of Go, k counted from 0
From(s, k) == SubSeq(s, k + 1, Len(s))

RECURSIVE TrimLeft(_)
TrimLeft(s) == IF s # <<>> /\ IsSpace(Head(s)) THEN TrimLeft(Tail(s)) ELSE s

RECURSIVE TrimRight(_)
TrimRight(s) ==
    IF s # <<>> /\ IsSpace(s[Len(s)]) THEN TrimRight(SubSeq(s, 1, Len(s) - 1)) ELSE s

TrimSpace(s) == TrimRight(TrimLeft(s))

\* index of the first ch in s, 0 when there is none
RECURSIVE IndexFrom(_, _, _)
IndexFrom(s, ch, i) ==
    IF i > Len(s) THEN 0
    ELSE IF s[i] = ch THEN i
    ELSE IndexFrom(s, ch, i + 1)

Index(s, ch) == IndexFrom(s, ch, 1)

\* strings.Split(s, sep): always at least one piece
RECURSIVE Split(_, _)
Split(s, sep) ==
    LET i == Index(s, sep)
    IN  IF i = 0 THEN <<s>>
        ELSE <<SubSeq(s, 1, i - 1)>> \o Split(SubSeq(s, i + 1, Len(s)), sep)

RECURSIVE StringsJoin(_, _)
StringsJoin(ss, sep) ==
    IF ss = <<>> THEN <<>>
    ELSE IF Len(ss) = 1 THEN ss[1]
    ELSE ss[1] \o sep \o StringsJoin(Tail(ss), sep)

RECURSIVE Repeat(_, _)
Repeat(ch, n) == IF n <= 0 THEN <<>> ELSE <<ch>> \o Repeat(ch, n - 1)

\* strings.Replace(s, old, new, -1) for one-character old and new
RECURSIVE ReplaceAll(_, _, _)
ReplaceAll(s, old, new) ==
    IF s = <<>> THEN <<>>
    ELSE <<IF Head(s) = old THEN new ELSE Head(s)>> \o ReplaceAll(Tail(s), old, new)

RECURSIVE LastIndexFrom(_, _, _)
LastIndexFrom(s, ch, i) ==
    IF i < 1 THEN 0
    ELSE IF s[i] = ch THEN i
    ELSE LastIndexFrom(s, ch, i - 1)

DotMd == <<".", "m", "d">>
CategoryPrefix == <<"-", " ", "C", "a", "t", "e", "g", "o", "r", "y", ":", " ">>
TagsPrefix == <<"-", " ", "T", "a", "g", "s", ":">>
CreatedPrefix == <<"-", " ", "C", "r", "e", "a", "t", "e", "d", ":", " ">>
NoTitle == <<"(", "n", "o", " ", "t", "i", "t", "l", "e", ")">>

\* reTitleBar = "^=+$"
RECURSIVE AllEq(_)
AllEq(s) == s = <<>> \/ (Head(s) = "=" /\ AllEq(Tail(s)))

reTitleBar(line) == line # <<>> /\ AllEq(line)

(***************************************************************************)
(* Paths: filepath.Join, Base, Dir, Ext on sequences of components         *)
(***************************************************************************)
RECURSIVE DropEmpty(_)
DropEmpty(cs) ==
    IF cs = <<>> THEN <<>>
    ELSE IF Head(cs) = <<>> \/ Head(cs) = <<".">> THEN DropEmpty(Tail(cs))
    ELSE <<Head(cs)>> \o DropEmpty(Tail(cs))

Components(s) == DropEmpty(Split(s, "/"))

Base(path) == path[Len(path)]

Dir(path) == SubSeq(path, 1, Len(path) - 1)

PathString(path) == StringsJoin(path, <<"/">>)

Ext(name) ==
    LET i == LastIndexFrom(name, ".", Len(name))
    IN  IF i = 0 THEN <<>> ELSE SubSeq(name, i, Len(name))

HomePath == <<"h">>

DirPath(n) == Components(HomePath) \o Components(n.Category)

FilePath(n) == Components(HomePath) \o Components(n.Category) \o Components(n.File)

(***************************************************************************)
(* Time: time.Now, Format(time.RFC3339), time.Parse, IsZero                *)
(***************************************************************************)
Digits == <<"0", "1", "2", "3", "4", "5", "6", "7", "8", "9">>

ZeroTime == [sec |-> 0, nsec |-> 0]

IsZero(t) == t.sec = 0 /\ t.nsec = 0

FormatRFC3339(t) == <<Digits[t.sec + 1]>>

ParseRFC3339(s) ==
    IF Len(s) = 1 /\ \E d \in 1..Len(Digits) : Digits[d] = s[1]
    THEN [ok |-> TRUE, t |-> [sec |-> (CHOOSE d \in 1..Len(Digits) : Digits[d] = s[1]) - 1, nsec |-> 0]]
    ELSE [ok |-> FALSE, t |-> ZeroTime]

(***************************************************************************)
(* The store: files maps the path of every regular file to its content;    *)
(* directories are the proper prefixes of those paths.                     *)
(***************************************************************************)
IsFile(p, fs) == p \in DOMAIN fs

IsDirIn(p, fs) == \E q \in DOMAIN fs : Len(q) > Len(p) /\ SubSeq(q, 1, Len(p)) = p

\* os.Stat(p) returns no error
StatOk(p, fs) == IsFile(p, fs) \/ IsDirIn(p, fs)

\* os.MkdirAll(d) fails when a component of d is a regular file
MkdirAllOk(d, fs) == \A k \in 1..Len(d) : ~IsFile(SubSeq(d, 1, k), fs)

\* ioutil.WriteFile(p) needs p's directory to exist and p not to be a directory
WriteFileOk(p, d, fs) == (Dir(p) = d \/ IsDirIn(Dir(p), fs)) /\ ~IsDirIn(p, fs)

(***************************************************************************)
(* Notes                                                                   *)
(***************************************************************************)
NoNote == [none |-> TRUE]

\* the comma-separated, trimmed, non-empty pieces (note.go 147-152, 194-199)
RECURSIVE TrimmedNonEmpty(_)
TrimmedNonEmpty(pieces) ==
    IF pieces = <<>> THEN <<>>
    ELSE LET t == TrimSpace(Head(pieces))
         IN  (IF t # <<>> THEN <<t>> ELSE <<>>) \o TrimmedNonEmpty(Tail(pieces))

\* the loop of lines 147-152 without the TrimSpace of line 148
RECURSIVE NonEmpty(_)
NonEmpty(pieces) ==
    IF pieces = <<>> THEN <<>>
    ELSE (IF Head(pieces) # <<>> THEN <<Head(pieces)>> ELSE <<>>) \o NonEmpty(Tail(pieces))

NewNoteTagsUntrimmed(tags) == NonEmpty(Split(tags, ","))

NewNoteTags(tags) == TrimmedNonEmpty(Split(tags, ","))

\* lines 154-157 without the strings.Replace of line 154
NormalizeFileNoReplace(file) ==
    IF HasSuffix(file, DotMd) THEN file ELSE file \o DotMd

NormalizeFile(file) ==
    LET f == ReplaceAll(file, " ", "-")
    IN  IF HasSuffix(f, DotMd) THEN f ELSE f \o DotMd

NewNote(cat, tags, file, title, now) ==
    IF cat = <<>> THEN [err |-> "empty category", note |-> NoNote]
    ELSE IF file = <<>> THEN [err |-> "empty file", note |-> NoNote]
    ELSE [err |-> "none",
          note |-> [Category |-> cat, Tags |-> NewNoteTags(tags), TagsNil |-> FALSE,
                    Created |-> now, File |-> NormalizeFile(file), Title |-> title]]

\* the header Create renders (note.go 44-57)
Header(n) ==
    LET title == IF n.Title = <<>> THEN TrimSuffix(n.File, Ext(n.File)) ELSE n.Title
    IN  title \o <<NL>>
        \o Repeat("=", Len(title)) \o <<NL>>
        \o CategoryPrefix \o n.Category \o <<NL>>
        \o TagsPrefix \o <<" ">> \o StringsJoin(n.Tags, <<",", " ">>) \o <<NL>>
        \o CreatedPrefix \o FormatRFC3339(n.Created) \o <<NL, NL>>

\* Create without the os.Stat test of line 65
CreateOverwrite(n, fs) ==
    LET d == DirPath(n)
        p == d \o Components(n.File)
    IN  IF ~MkdirAllOk(d, fs) THEN [err |-> "mkdir", files |-> fs]
        ELSE IF ~WriteFileOk(p, d, fs) THEN [err |-> "write", files |-> fs]
        ELSE [err |-> "none", files |-> (p :> Header(n)) @@ fs]

Create(n, fs) ==
    LET d == DirPath(n)
        p == d \o Components(n.File)
    IN  IF ~MkdirAllOk(d, fs) THEN [err |-> "mkdir", files |-> fs]
        ELSE IF StatOk(p, fs) THEN [err |-> "exists", files |-> fs]
        ELSE IF ~WriteFileOk(p, d, fs) THEN [err |-> "write", files |-> fs]
        ELSE [err |-> "none", files |-> (p :> Header(n)) @@ fs]

(***************************************************************************)
(* LoadNote (note.go 161-224)                                              *)
(***************************************************************************)
DropCR(line) ==
    IF line # <<>> /\ line[Len(line)] = "\r" THEN SubSeq(line, 1, Len(line) - 1) ELSE line

\* bufio.Scanner with the default ScanLines split function
RECURSIVE ScanLines(_)
ScanLines(data) ==
    LET i == Index(data, NL)
    IN  IF data = <<>> THEN <<>>
        ELSE IF i = 0 THEN <<DropCR(data)>>
        ELSE <<DropCR(SubSeq(data, 1, i - 1))>> \o ScanLines(SubSeq(data, i + 1, Len(data)))

\* the fields LoadNote has set so far; stop is the reason a return statement
\* inside the loop was taken, "" while the loop goes on
ScanStart(path) ==
    [Category |-> <<>>, Tags |-> <<>>, TagsNil |-> TRUE, Created |-> ZeroTime,
     File |-> Base(path), Title |-> <<>>, titleFound |-> FALSE, stop |-> "", read |-> 0]

\* the loop body without the comparison of line 188
ScanLineNoCheck(st, line, path) ==
    IF ~st.titleFound THEN
        IF reTitleBar(line)
        THEN [st EXCEPT !.Title = IF st.Title = <<>> THEN NoTitle ELSE st.Title,
                        !.titleFound = TRUE]
        ELSE [st EXCEPT !.Title = line]
    ELSE IF HasPrefix(line, CategoryPrefix) THEN
        [st EXCEPT !.Category = TrimSpace(From(line, 12))]
    ELSE IF HasPrefix(line, TagsPrefix) THEN
        [st EXCEPT !.Tags = TrimmedNonEmpty(Split(TrimSpace(From(line, 7)), ",")),
                   !.TagsNil = FALSE]
    ELSE IF HasPrefix(line, CreatedPrefix) THEN
        LET r == ParseRFC3339(TrimSpace(From(line, 11)))
        IN  IF ~r.ok THEN [st EXCEPT !.stop = "bad created"]
            ELSE [st EXCEPT !.Created = r.t]
    ELSE st

\* the loop body with line 184 keeping the first candidate title
ScanLineFirstTitle(st, line, path) ==
    IF ~st.titleFound THEN
        IF reTitleBar(line)
        THEN [st EXCEPT !.Title = IF st.Title = <<>> THEN NoTitle ELSE st.Title,
                        !.titleFound = TRUE]
        ELSE [st EXCEPT !.Title = IF st.Title = <<>> THEN line ELSE st.Title]
    ELSE IF HasPrefix(line, CategoryPrefix) THEN
        LET c == TrimSpace(From(line, 12))
        IN  IF Base(Dir(path)) # c
            THEN [st EXCEPT !.Category = c, !.stop = "category mismatch"]
            ELSE [st EXCEPT !.Category = c]
    ELSE IF HasPrefix(line, TagsPrefix) THEN
        [st EXCEPT !.Tags = TrimmedNonEmpty(Split(TrimSpace(From(line, 7)), ",")),
                   !.TagsNil = FALSE]
    ELSE IF HasPrefix(line, CreatedPrefix) THEN
        LET r == ParseRFC3339(TrimSpace(From(line, 11)))
        IN  IF ~r.ok THEN [st EXCEPT !.stop = "bad created"]
            ELSE [st EXCEPT !.Created = r.t]
    ELSE st

\* the loop body with a Tags line recognized only once Category is set
ScanLineOrdered(st, line, path) ==
    IF ~st.titleFound THEN
        IF reTitleBar(line)
        THEN [st EXCEPT !.Title = IF st.Title = <<>> THEN NoTitle ELSE st.Title,
                        !.titleFound = TRUE]
        ELSE [st EXCEPT !.Title = line]
    ELSE IF HasPrefix(line, CategoryPrefix) THEN
        LET c == TrimSpace(From(line, 12))
        IN  IF Base(Dir(path)) # c
            THEN [st EXCEPT !.Category = c, !.stop = "category mismatch"]
            ELSE [st EXCEPT !.Category = c]
    ELSE IF HasPrefix(line, TagsPrefix) /\ st.Category # <<>> THEN
        [st EXCEPT !.Tags = TrimmedNonEmpty(Split(TrimSpace(From(line, 7)), ",")),
                   !.TagsNil = FALSE]
    ELSE IF HasPrefix(line, CreatedPrefix) THEN
        LET r == ParseRFC3339(TrimSpace(From(line, 11)))
        IN  IF ~r.ok THEN [st EXCEPT !.stop = "bad created"]
            ELSE [st EXCEPT !.Created = r.t]
    ELSE st

\* one iteration of the loop body, lines 175-206
ScanLine(st, line, path) ==
    IF ~st.titleFound THEN
        IF reTitleBar(line)
        THEN [st EXCEPT !.Title = IF st.Title = <<>> THEN NoTitle ELSE st.Title,
                        !.titleFound = TRUE]
        ELSE [st EXCEPT !.Title = line]
    ELSE IF HasPrefix(line, CategoryPrefix) THEN
        LET c == TrimSpace(From(line, 12))
        IN  IF Base(Dir(path)) # c
            THEN [st EXCEPT !.Category = c, !.stop = "category mismatch"]
            ELSE [st EXCEPT !.Category = c]
    ELSE IF HasPrefix(line, TagsPrefix) THEN
        [st EXCEPT !.Tags = TrimmedNonEmpty(Split(TrimSpace(From(line, 7)), ",")),
                   !.TagsNil = FALSE]
    ELSE IF HasPrefix(line, CreatedPrefix) THEN
        LET r == ParseRFC3339(TrimSpace(From(line, 11)))
        IN  IF ~r.ok THEN [st EXCEPT !.stop = "bad created"]
            ELSE [st EXCEPT !.Created = r.t]
    ELSE st

\* the loop without the break of lines 207-209
NeverAllSet(st) == FALSE

\* the condition of the break at line 207
AllSet(st) ==
    st.Category # <<>> /\ ~st.TagsNil /\ ~IsZero(st.Created) /\ st.Title # <<>>

RECURSIVE ScanLoop(_, _, _, _)
ScanLoop(lines, i, st, path) ==
    IF i > Len(lines) THEN st
    ELSE LET st2 == [ScanLine(st, lines[i], path) EXCEPT !.read = i]
         IN  IF st2.stop # "" THEN st2
             ELSE IF AllSet(st2) THEN st2
             ELSE ScanLoop(lines, i + 1, st2, path)

NoteOf(st) ==
    [Category |-> st.Category, Tags |-> st.Tags, TagsNil |-> st.TagsNil,
     Created |-> st.Created, File |-> st.File, Title |-> st.Title]

\* LoadNote without the test of line 219
LoadNoteNoMissingCheck(path, fs) ==
    IF ~IsFile(path, fs) THEN [err |-> "open", note |-> NoNote, read |-> 0]
    ELSE LET st == ScanLoop(ScanLines(fs[path]), 1, ScanStart(path), path)
         IN  IF st.stop # "" THEN [err |-> st.stop, note |-> NoNote, read |-> st.read]
             ELSE IF ~st.titleFound THEN [err |-> "no title", note |-> NoNote, read |-> st.read]
             ELSE [err |-> "none", note |-> NoteOf(st), read |-> st.read]

\* LoadNote without the test of line 215
LoadNoteNoTitleCheck(path, fs) ==
    IF ~IsFile(path, fs) THEN [err |-> "open", note |-> NoNote, read |-> 0]
    ELSE LET st == ScanLoop(ScanLines(fs[path]), 1, ScanStart(path), path)
         IN  IF st.stop # "" THEN [err |-> st.stop, note |-> NoNote, read |-> st.read]
             ELSE IF st.Category = <<>> \/ st.TagsNil \/ IsZero(st.Created)
                  THEN [err |-> "missing metadata", note |-> NoNote, read |-> st.read]
             ELSE [err |-> "none", note |-> NoteOf(st), read |-> st.read]

\* err is "none" and note the loaded note, or err names the failure; read is
\* the number of lines the scanner had delivered when LoadNote returned
LoadNote(path, fs) ==
    IF ~IsFile(path, fs) THEN [err |-> "open", note |-> NoNote, read |-> 0]
    ELSE LET st == ScanLoop(ScanLines(fs[path]), 1, ScanStart(path), path)
         IN  IF st.stop # "" THEN [err |-> st.stop, note |-> NoNote, read |-> st.read]
             ELSE IF ~st.titleFound THEN [err |-> "no title", note |-> NoNote, read |-> st.read]
             ELSE IF st.Category = <<>> \/ st.TagsNil \/ IsZero(st.Created)
                  THEN [err |-> "missing metadata", note |-> NoNote, read |-> st.read]
             ELSE [err |-> "none", note |-> NoteOf(st), read |-> st.read]

(***************************************************************************)
(* Note.ReadBodyN (note.go 84-137)                                         *)
(***************************************************************************)
\* bufio.Reader.ReadString('\n') at offset pos (bytes before pos are consumed):
\* the bytes up to and including the newline, or the rest and io.EOF
ReadString(data, pos) ==
    LET rest == SubSeq(data, pos + 1, Len(data))
        i == Index(rest, NL)
    IN  IF i = 0 THEN [t |-> rest, eof |-> TRUE, pos |-> Len(data)]
        ELSE [t |-> SubSeq(rest, 1, i), eof |-> FALSE, pos |-> pos + i]

\* the loop of lines 95-110 with the error test of line 107 moved before the
\* marker test of line 104
RECURSIVE SkipMetadataErrFirst(_, _, _, _, _)
SkipMetadataErrFirst(data, pos, sawCat, sawTags, sawCreated) ==
    LET r == ReadString(data, pos)
        cat == sawCat \/ HasPrefix(r.t, CategoryPrefix)
        tags == sawTags \/ (~HasPrefix(r.t, CategoryPrefix) /\ HasPrefix(r.t, TagsPrefix))
        cre == sawCreated \/ (~HasPrefix(r.t, CategoryPrefix) /\ ~HasPrefix(r.t, TagsPrefix)
                              /\ HasPrefix(r.t, CreatedPrefix))
    IN  IF r.eof THEN [ok |-> FALSE, pos |-> r.pos]
        ELSE IF cat /\ tags /\ cre THEN [ok |-> TRUE, pos |-> r.pos]
        ELSE SkipMetadataErrFirst(data, r.pos, cat, tags, cre)

\* the loop of lines 95-110: the offset after the line that completes the
\* three markers, or failure at end of file
RECURSIVE SkipMetadata(_, _, _, _, _)
SkipMetadata(data, pos, sawCat, sawTags, sawCreated) ==
    LET r == ReadString(data, pos)
        cat == sawCat \/ HasPrefix(r.t, CategoryPrefix)
        tags == sawTags \/ (~HasPrefix(r.t, CategoryPrefix) /\ HasPrefix(r.t, TagsPrefix))
        cre == sawCreated \/ (~HasPrefix(r.t, CategoryPrefix) /\ ~HasPrefix(r.t, TagsPrefix)
                              /\ HasPrefix(r.t, CreatedPrefix))
    IN  IF cat /\ tags /\ cre THEN [ok |-> TRUE, pos |-> r.pos]
        ELSE IF r.eof THEN [ok |-> FALSE, pos |-> r.pos]
        ELSE SkipMetadata(data, r.pos, cat, tags, cre)

\* the loop of lines 115-124: buf after it, and the offset reached
RECURSIVE SkipEmptyLines(_, _)
SkipEmptyLines(data, pos) ==
    LET r == ReadString(data, pos)
    IN  IF r.eof THEN [buf |-> <<>>, pos |-> r.pos]
        ELSE IF Len(r.t) > 1 THEN [buf |-> r.t, pos |-> r.pos]
        ELSE SkipEmptyLines(data, r.pos)

Min(a, b) == IF a < b THEN a ELSE b

\* ReadBodyN without the truncation of lines 127-129
ReadBodyNNoTruncate(n, maxBytes, fs) ==
    LET path == FilePath(n)
    IN  IF ~IsFile(path, fs) THEN [err |-> "open", s |-> <<>>]
        ELSE LET data == fs[path]
                 m == SkipMetadata(data, 0, FALSE, FALSE, FALSE)
                 e == SkipEmptyLines(data, m.pos)
                 len == Len(e.buf)
             IN  IF ~m.ok THEN [err |-> "metadata", s |-> <<>>]
                 ELSE [err |-> "none",
                       s |-> e.buf \o SubSeq(data, e.pos + 1,
                                             Min(Len(data), e.pos + (maxBytes - len)))]

ReadBodyN(n, maxBytes, fs) ==
    LET path == FilePath(n)
    IN  IF ~IsFile(path, fs) THEN [err |-> "open", s |-> <<>>]
        ELSE LET data == fs[path]
                 m == SkipMetadata(data, 0, FALSE, FALSE, FALSE)
                 e == SkipEmptyLines(data, m.pos)
                 len == Len(e.buf)
             IN  IF ~m.ok THEN [err |-> "metadata", s |-> <<>>]
                 ELSE IF len > maxBytes THEN [err |-> "none", s |-> SubSeq(e.buf, 1, maxBytes)]
                 ELSE [err |-> "none",
                       s |-> e.buf \o SubSeq(data, e.pos + 1,
                                             Min(Len(data), e.pos + (maxBytes - len)))]

(***************************************************************************)
(* Results of the operations                                               *)
(***************************************************************************)
NoResult == [none |-> TRUE]

\* the variables of the tree walk, while no walk is running
WalkIdle ==
    /\ todo = <<>>
    /\ visited = <<>>
    /\ parsed = <<>>
    /\ walkRes = [state |-> "idle", err |-> "none", cause |-> "none"]

(***************************************************************************)
(* SpecNote: a store in which notes are constructed, created and loaded    *)
(* back.                                                                   *)
(***************************************************************************)
Categories == {<<>>, <<"c">>, <<"c", "/", "d">>}
TagStrings == {<<>>, <<" ", "a", ",", ",", "b", " ">>}
FileHints == {<<>>, <<"n">>}
Titles == {<<>>, <<"t">>, <<"=">>}
\* values of time.Now(): never the zero time
Instants == {[sec |-> 1, nsec |-> 0], [sec |-> 2, nsec |-> 5]}

InitNote ==
    /\ files = << >>
    /\ note = NoNote
    /\ tagsArg = <<>>
    /\ fileArg = <<>>
    /\ newErr = "none"
    /\ written = FALSE
    /\ created = "none"
    /\ loaded = NoResult
    /\ body = NoResult
    /\ WalkIdle

NewNoteOp ==
    \E cat \in Categories, tags \in TagStrings, file \in FileHints,
       title \in Titles, now \in Instants :
        LET r == NewNote(cat, tags, file, title, now)
        IN  /\ note' = r.note
            /\ tagsArg' = tags
            /\ fileArg' = file
            /\ newErr' = r.err
            /\ written' = FALSE
            /\ created' = "none"
            /\ loaded' = NoResult
            /\ UNCHANGED <<files, body, todo, visited, parsed, walkRes>>

CreateOp ==
    /\ note # NoNote
    /\ LET r == Create(note, files)
       IN  /\ files' = r.files
           /\ created' = r.err
           /\ written' = (written \/ r.err = "none")
    /\ loaded' = NoResult
    /\ UNCHANGED <<note, tagsArg, fileArg, newErr, body, todo, visited, parsed, walkRes>>

\* LoadNote(n.FilePath(), cfg) for the current note n
LoadNoteOp ==
    /\ note # NoNote
    /\ loaded' = LoadNote(FilePath(note), files)
    /\ UNCHANGED <<files, note, tagsArg, fileArg, newErr, written, created, body, todo, visited, parsed, walkRes>>

NextNote == NewNoteOp \/ CreateOp \/ LoadNoteOp

SpecNote == InitNote /\ [][NextNote]_vars

\* the title a freshly constructed note n is expected to load back with
ExpectedTitle(n) == IF n.Title # <<>> THEN n.Title ELSE TrimSuffix(n.File, Ext(n.File))

\* C1: once n.Create() has succeeded for the note n built by NewNote,
\* LoadNote(n.FilePath()) succeeds and returns n's category, tags, creation
\* instant at second precision, and n's title or else the file stem.
C1_RoundTrip ==
    (written /\ loaded # NoResult) =>
        /\ loaded.err = "none"
        /\ loaded.note.Category = note.Category
        /\ ~loaded.note.TagsNil
        /\ loaded.note.Tags = note.Tags
        /\ loaded.note.Created = [sec |-> note.Created.sec, nsec |-> 0]
        /\ loaded.note.Title = ExpectedTitle(note)

\* C2: a Create call never changes the content of a file that exists, and a
\* Create call on a note whose file exists returns the already-exists error
\* and leaves the store as it was.
C2_NoOverwrite ==
    [][ /\ \A p \in DOMAIN files : p \in DOMAIN files' /\ files'[p] = files[p]
        /\ (CreateOp /\ IsFile(FilePath(note), files))
              => (created' = "exists" /\ files' = files) ]_vars

\* a Create was rejected for a note whose header differs from the file's content
C2_Witness ==
    /\ note # NoNote
    /\ created = "exists"
    /\ IsFile(FilePath(note), files)
    /\ files[FilePath(note)] # Header(note)

(***************************************************************************)
(* SpecLoad: LoadNote on a note file of arbitrary content, as an editor    *)
(* may have left it, in the category directory c of the store.             *)
(***************************************************************************)
MaxLines == 4

NotePath == <<HomePath, <<"c">>, <<"n", ".", "m", "d">>>>

LoadLines ==
    { <<>>, <<"t">>, <<"=">>,
      CategoryPrefix \o <<"c">>, CategoryPrefix \o <<"d">>,
      TagsPrefix \o <<" ", "a">>,
      CreatedPrefix \o <<"1">>, CreatedPrefix \o <<"0">>, CreatedPrefix \o <<"x">> }

LinesUpTo(cands, n) == UNION { [1..k -> cands] : k \in 0..n }

\* the file made of the given lines; the last line ends with a newline or not
RECURSIVE FileOf(_, _)
FileOf(lines, finalNL) ==
    IF lines = <<>> THEN <<>>
    ELSE IF Len(lines) = 1 THEN lines[1] \o (IF finalNL THEN <<NL>> ELSE <<>>)
    ELSE lines[1] \o <<NL>> \o FileOf(Tail(lines), finalNL)

InitLoad ==
    /\ \E lines \in LinesUpTo(LoadLines, MaxLines), finalNL \in BOOLEAN :
          files = (NotePath :> FileOf(lines, finalNL))
    /\ note = NoNote
    /\ tagsArg = <<>>
    /\ fileArg = <<>>
    /\ newErr = "none"
    /\ written = FALSE
    /\ created = "none"
    /\ loaded = NoResult
    /\ body = NoResult
    /\ WalkIdle

LoadFileOp ==
    /\ loaded = NoResult
    /\ loaded' = LoadNote(NotePath, files)
    /\ UNCHANGED <<files, note, tagsArg, fileArg, newErr, written, created, body, todo, visited, parsed, walkRes>>

NextLoad == LoadFileOp

SpecLoad == InitLoad /\ [][NextLoad]_vars

\* the lines of the file under NotePath, and facts about them stated without
\* reference to the scan
FileLines == ScanLines(files[NotePath])

ParentName == NotePath[Len(NotePath) - 1]

IsCategoryLine(l) == HasPrefix(l, CategoryPrefix)
IsTagsLine(l) == HasPrefix(l, TagsPrefix)
IsCreatedLine(l) == HasPrefix(l, CreatedPrefix)
MismatchingLine(l) == IsCategoryLine(l) /\ TrimSpace(SubSeq(l, 13, Len(l))) # ParentName
MalformedCreatedLine(l) == IsCreatedLine(l) /\ ~ParseRFC3339(TrimSpace(SubSeq(l, 12, Len(l)))).ok

HasBar == \E i \in 1..Len(FileLines) : reTitleBar(FileLines[i])
FirstBar == CHOOSE i \in 1..Len(FileLines) :
                reTitleBar(FileLines[i]) /\ \A j \in 1..(i - 1) : ~reTitleBar(FileLines[j])
AfterBar == IF HasBar THEN (FirstBar + 1)..Len(FileLines) ELSE {}

\* C3 as stated: a file with a mismatching Category line anywhere makes
\* LoadNote fail with the category-mismatch error.
C3_AnyMismatchFails ==
    (loaded # NoResult /\ \E i \in 1..Len(FileLines) : MismatchingLine(FileLines[i]))
        => loaded.err = "category mismatch"

\* the first Category line after the first title bar mismatches, and no
\* malformed Created line lies between the bar and it
FirstCategoryMismatches ==
    \E k \in AfterBar :
        /\ MismatchingLine(FileLines[k])
        /\ \A j \in AfterBar : j < k =>
              ~IsCategoryLine(FileLines[j]) /\ ~MalformedCreatedLine(FileLines[j])

\* C3, amended: when the first Category line after the first title bar has a
\* trimmed value that differs from the parent directory name, and no malformed
\* Created line lies between the bar and that line, LoadNote fails with the
\* category-mismatch error, whatever the other lines are.
C3_FirstMismatchFails ==
    (loaded # NoResult /\ FirstCategoryMismatches) => loaded.err = "category mismatch"

\* a mismatching first Category line, followed by a malformed Created line
C3_Witness ==
    /\ loaded # NoResult
    /\ FirstCategoryMismatches
    /\ \E i \in AfterBar : MalformedCreatedLine(FileLines[i])
    /\ loaded.err = "category mismatch"

\* what every note LoadNote returns satisfies
ValidlyLoaded ==
    (loaded # NoResult /\ loaded.err = "none") =>
        /\ loaded.note.Category # <<>>
        /\ loaded.note.Category = ParentName
        /\ ~loaded.note.TagsNil
        /\ ~IsZero(loaded.note.Created)
        /\ loaded.note.Title # <<>>

\* the file has a title bar and lacks, after it, one of the three lines
LacksMetadataLine ==
    /\ HasBar
    /\ \/ \A i \in AfterBar : ~IsCategoryLine(FileLines[i])
       \/ \A i \in AfterBar : ~IsTagsLine(FileLines[i])
       \/ \A i \in AfterBar : ~IsCreatedLine(FileLines[i])

\* C4 as stated: a returned note is validly loaded, and a file with a title
\* bar that lacks one of the three lines after it fails with the
\* missing-metadata error.
C4_MissingAlwaysReported ==
    /\ ValidlyLoaded
    /\ (loaded # NoResult /\ LacksMetadataLine) => loaded.err = "missing metadata"

\* C4, amended: a returned note has a non-empty Category equal to the parent
\* directory name, present Tags, a non-zero Created and a non-empty Title; a
\* file with a title bar that lacks, after the bar, one of the Category, Tags
\* or Created lines makes LoadNote fail, with the missing-metadata error unless
\* a mismatching Category line or a malformed Created line after the bar is
\* read first, which fails it with that line's own error.
C4_ValidOrFails ==
    /\ ValidlyLoaded
    /\ (loaded # NoResult /\ LacksMetadataLine) =>
          /\ loaded.err \in {"missing metadata", "category mismatch", "bad created"}
          /\ (\A i \in AfterBar : ~MismatchingLine(FileLines[i])
                                  /\ ~MalformedCreatedLine(FileLines[i]))
                => loaded.err = "missing metadata"

\* a file with a title bar, a Category line and a Created line but no Tags
\* line was refused for its missing metadata
C4_Witness ==
    /\ loaded # NoResult
    /\ LacksMetadataLine
    /\ \E i \in AfterBar : IsCategoryLine(FileLines[i])
    /\ \E i \in AfterBar : IsCreatedLine(FileLines[i])
    /\ loaded.err = "missing metadata"

\* C13: for a readable file without any line made only of = characters,
\* LoadNote fails with the no-title error and returns no note, whatever the
\* other lines are.
C13_NoBarIsError ==
    (loaded # NoResult /\ ~HasBar) => (loaded.err = "no title" /\ loaded.note = NoNote)

\* a file without a bar that holds a mismatching Category line, a malformed
\* Created line and a Tags line was refused for its missing title
C13_Witness ==
    /\ loaded # NoResult
    /\ ~HasBar
    /\ \E i \in 1..Len(FileLines) : MismatchingLine(FileLines[i])
    /\ \E i \in 1..Len(FileLines) : MalformedCreatedLine(FileLines[i])
    /\ \E i \in 1..Len(FileLines) : IsTagsLine(FileLines[i])
    /\ loaded.err = "no title"

(***************************************************************************)
(* SpecTags: one raw tags string, given to NewNote and found by LoadNote   *)
(* as the remainder of the Tags line of a note file.                       *)
(***************************************************************************)
MaxTagStr == 4

TagChars == {"a", "b", ",", " "}

TagInputs == UNION { [1..k -> TagChars] : k \in 0..MaxTagStr }

\* a note file whose Tags line is "- Tags:" followed by s
FileWithTags(s) ==
    FileOf(<< <<"t">>, <<"=">>, CategoryPrefix \o <<"c">>, CreatedPrefix \o <<"1">>,
              TagsPrefix \o s >>, TRUE)

InitTags ==
    /\ tagsArg \in TagInputs
    /\ fileArg = <<"n">>
    /\ files = (NotePath :> FileWithTags(tagsArg))
    /\ note = NoNote
    /\ newErr = "none"
    /\ written = FALSE
    /\ created = "none"
    /\ loaded = NoResult
    /\ body = NoResult
    /\ WalkIdle

NewNoteTagsOp ==
    /\ note = NoNote
    /\ \E now \in Instants :
          LET r == NewNote(<<"c">>, tagsArg, fileArg, <<>>, now)
          IN  note' = r.note /\ newErr' = r.err
    /\ UNCHANGED <<files, tagsArg, fileArg, written, created, loaded, body, todo, visited, parsed, walkRes>>

LoadTagsOp ==
    /\ loaded = NoResult
    /\ loaded' = LoadNote(NotePath, files)
    /\ UNCHANGED <<files, note, tagsArg, fileArg, newErr, written, created, body, todo, visited, parsed, walkRes>>

NextTags == NewNoteTagsOp \/ LoadTagsOp

SpecTags == InitTags /\ [][NextTags]_vars

\* the expected tags of s, from the positions of its commas: for each maximal
\* comma-free stretch in order, the part from its first to its last
\* non-whitespace character, stretches without such a character left out
SetMin(S) == CHOOSE x \in S : \A y \in S : x <= y
SetMax(S) == CHOOSE x \in S : \A y \in S : x >= y

RECURSIVE PiecesAfter(_, _)
PiecesAfter(s, l) ==
    LET r == SetMin({Len(s) + 1} \cup {i \in (l + 1)..Len(s) : s[i] = ","})
        solid == {i \in (l + 1)..(r - 1) : s[i] \notin {" ", "\t", "\n", "\r"}}
        here == IF solid = {} THEN <<>> ELSE <<SubSeq(s, SetMin(solid), SetMax(solid))>>
    IN  IF r > Len(s) THEN here ELSE here \o PiecesAfter(s, r)

ExpectedTags(s) == PiecesAfter(s, 0)

\* C5: the tags NewNote builds from the raw string, and the tags LoadNote
\* builds from a Tags line whose remainder is that string, are the
\* comma-separated pieces of the string, trimmed, without the empty ones, in
\* order; the sequence is present even when it is empty.
C5_TagParsing ==
    /\ note # NoNote => (~note.TagsNil /\ note.Tags = ExpectedTags(tagsArg))
    /\ loaded # NoResult =>
          /\ loaded.err = "none"
          /\ ~loaded.note.TagsNil
          /\ loaded.note.Tags = ExpectedTags(tagsArg)

\* both have parsed a string with an empty piece, a piece of whitespace only
\* and a repeated tag, or a string of commas and whitespace only
C5_Witness ==
    /\ note # NoNote
    /\ loaded # NoResult
    /\ tagsArg \in {<<"a", ",", " ", "a">>, <<" ", ",", ",", " ">>}
    /\ loaded.note.Tags = note.Tags
    /\ Len(note.Tags) \in {0, 2}

(***************************************************************************)
(* WalkNotes (note.go 226-254) over filepath.Walk.  todo holds the entries *)
(* the walk has still to reach, in the order it reaches them; one step is  *)
(* one call of the walk function.  visited and parsed record the calls of  *)
(* the visitor (with what it returned) and of LoadNote.                    *)
(***************************************************************************)
GitName == <<".", "g", "i", "t">>
CatName == <<"c", ".", "m", "d">>
FileM == <<"m", ".", "m", "d">>
FileN == <<"n", ".", "m", "d">>
FileX == <<"x", ".", "m", "d">>
FileT == <<"t", ".", "t", "x", "t">>

\* the entry names of the model, in the order filepath.Walk lists them
\* (readDirNames sorts the names of a directory)
NameOrder == <<GitName, CatName, FileM, FileN, FileT, FileX>>

DirNames == {GitName, CatName}
FileNames == {FileM, FileN, FileT, FileX}

Root == Components(HomePath)

\* the content of the file of a given name: a header as Create writes it, of
\* category CatName for m.md and n.md and of category d for x.md
ContentOf(name) ==
    IF name = FileT THEN <<"t", NL>>
    ELSE Header([Category |-> IF name = FileX THEN <<"d">> ELSE CatName,
                 Tags |-> <<>>, TagsNil |-> FALSE, Created |-> [sec |-> 1, nsec |-> 0],
                 File |-> name, Title |-> <<>>])

\* the names of the entries of directory dir, sorted
RECURSIVE ChildrenFrom(_, _, _)
ChildrenFrom(dir, fs, k) ==
    IF k > Len(NameOrder) THEN <<>>
    ELSE (IF StatOk(dir \o <<NameOrder[k]>>, fs) THEN <<dir \o <<NameOrder[k]>>>> ELSE <<>>)
         \o ChildrenFrom(dir, fs, k + 1)

Children(dir, fs) == ChildrenFrom(dir, fs, 1)

\* what the visitor (pred) may return: nil, an error of its own, or
\* filepath.SkipDir, the error value filepath.Walk gives a meaning to
VisitorReturns == {"nil", "error", "SkipDir"}

\* the walk function without the test of line 234
NeverGitDir(info) == FALSE

\* the test of line 234 on info.Name()
IsGitDir(info) == info = GitName

\* the walk function without the suffix test of line 240
WalkFnAnySuffix(path, lstatErr, fs, predRet) ==
    IF lstatErr THEN [ret |-> "traverse", load |-> FALSE, pred |-> FALSE, note |-> NoNote]
    ELSE IF IsDirIn(path, fs) THEN
        [ret |-> IF IsGitDir(Base(path)) THEN "SkipDir" ELSE "nil",
         load |-> FALSE, pred |-> FALSE, note |-> NoNote]
    ELSE LET r == LoadNote(path, fs)
         IN  IF r.err # "none"
             THEN [ret |-> "load", load |-> TRUE, pred |-> FALSE, note |-> NoNote]
             ELSE [ret |-> predRet, load |-> TRUE, pred |-> TRUE, note |-> r.note]

\* the walk function of lines 228-251, called on path with Lstat error
\* lstatErr, the visitor returning predRet if it is called: what it returns,
\* and whether it called LoadNote and the visitor
WalkFn(path, lstatErr, fs, predRet) ==
    IF lstatErr THEN [ret |-> "traverse", load |-> FALSE, pred |-> FALSE, note |-> NoNote]
    ELSE IF IsDirIn(path, fs) THEN
        [ret |-> IF IsGitDir(Base(path)) THEN "SkipDir" ELSE "nil",
         load |-> FALSE, pred |-> FALSE, note |-> NoNote]
    ELSE IF ~HasSuffix(PathString(path), DotMd) THEN
        [ret |-> "nil", load |-> FALSE, pred |-> FALSE, note |-> NoNote]
    ELSE LET r == LoadNote(path, fs)
         IN  IF r.err # "none"
             THEN [ret |-> "load", load |-> TRUE, pred |-> FALSE, note |-> NoNote]
             ELSE [ret |-> predRet, load |-> TRUE, pred |-> TRUE, note |-> r.note]

\* the entries filepath.Walk leaves out after a file's walk function returned
\* SkipDir: the rest of the file's directory
RECURSIVE DropSiblings(_, _)
DropSiblings(es, dir) ==
    IF es = <<>> THEN <<>>
    ELSE IF Dir(Head(es)) = dir THEN DropSiblings(Tail(es), dir)
    ELSE es

Running == walkRes.state = "running"

Finished(err, cause) == [state |-> "done", err |-> err, cause |-> cause]

\* filepath.Walk starts with os.Lstat(root)
WalkStart ==
    /\ walkRes.state = "idle"
    /\ IF StatOk(Root, files)
       THEN todo' = <<Root>> /\ walkRes' = [walkRes EXCEPT !.state = "running"]
       ELSE todo' = <<>> /\ walkRes' = Finished(WalkFn(Root, TRUE, files, "nil").ret, "lstat")
    /\ UNCHANGED <<files, note, tagsArg, fileArg, newErr, written, created, loaded, body, visited, parsed>>

\* a directory that the walk function lets the walk descend into
EnterDir ==
    /\ Running /\ todo # <<>>
    /\ IsDirIn(Head(todo), files)
    /\ WalkFn(Head(todo), FALSE, files, "nil").ret = "nil"
    /\ todo' = Children(Head(todo), files) \o Tail(todo)
    /\ UNCHANGED <<files, note, tagsArg, fileArg, newErr, written, created, loaded, body,
                   visited, parsed, walkRes>>

\* a directory for which the walk function returns SkipDir
SkipDirectory ==
    /\ Running /\ todo # <<>>
    /\ IsDirIn(Head(todo), files)
    /\ WalkFn(Head(todo), FALSE, files, "nil").ret = "SkipDir"
    /\ todo' = Tail(todo)
    /\ UNCHANGED <<files, note, tagsArg, fileArg, newErr, written, created, loaded, body,
                   visited, parsed, walkRes>>

\* reading a directory fails: the walk function is called with the error
TraverseError ==
    /\ Running /\ todo # <<>>
    /\ IsDirIn(Head(todo), files)
    /\ walkRes' = Finished(WalkFn(Head(todo), TRUE, files, "nil").ret, "readdir")
    /\ todo' = <<>>
    /\ UNCHANGED <<files, note, tagsArg, fileArg, newErr, written, created, loaded, body,
                   visited, parsed>>

\* a file the walk function passes over, or fails to load, or hands to the
\* visitor
VisitFile ==
    /\ Running /\ todo # <<>>
    /\ IsFile(Head(todo), files)
    /\ \E predRet \in VisitorReturns :
          LET path == Head(todo)
              f == WalkFn(path, FALSE, files, predRet)
          IN  /\ parsed' = IF f.load THEN Append(parsed, path) ELSE parsed
              /\ visited' = IF f.pred
                            THEN Append(visited, [path |-> path, note |-> f.note, ret |-> predRet])
                            ELSE visited
              /\ IF f.ret = "nil" THEN
                     todo' = Tail(todo) /\ UNCHANGED walkRes
                 ELSE IF f.ret = "SkipDir" THEN
                     todo' = DropSiblings(Tail(todo), Dir(path)) /\ UNCHANGED walkRes
                 ELSE
                     todo' = <<>> /\ walkRes' = Finished(f.ret, path)
    /\ UNCHANGED <<files, note, tagsArg, fileArg, newErr, written, created, loaded, body>>

\* filepath.Walk has no entry left: WalkNotes returns errors.Wrap(nil, ...)
WalkReturn ==
    /\ Running /\ todo = <<>>
    /\ walkRes' = Finished("none", "none")
    /\ UNCHANGED <<files, note, tagsArg, fileArg, newErr, written, created, loaded, body,
                   todo, visited, parsed>>

MaxFiles == 3

\* the directories a store of the model may have: the root, and .git and the
\* category directory at one and at two levels under it
StoreDirs ==
    {Root} \cup {Root \o <<n>> : n \in DirNames}
           \cup {Root \o <<n, k>> : n \in DirNames, k \in DirNames}

StorePaths == {d \o <<f>> : d \in StoreDirs, f \in FileNames}

RECURSIVE SubsetsUpTo(_, _)
SubsetsUpTo(S, k) ==
    IF k = 0 THEN {{}}
    ELSE LET T == SubsetsUpTo(S, k - 1) IN T \cup {t \cup {x} : t \in T, x \in S}

InitWalk ==
    /\ \E S \in SubsetsUpTo(StorePaths, MaxFiles) : files = [p \in S |-> ContentOf(Base(p))]
    /\ note = NoNote
    /\ tagsArg = <<>>
    /\ fileArg = <<>>
    /\ newErr = "none"
    /\ written = FALSE
    /\ created = "none"
    /\ loaded = NoResult
    /\ body = NoResult
    /\ WalkIdle

NextWalk ==
    WalkStart \/ EnterDir \/ SkipDirectory \/ TraverseError \/ VisitFile \/ WalkReturn

SpecWalk == InitWalk /\ [][NextWalk]_vars

\* path lies beneath a directory named .git
UnderGit(path) == \E i \in 1..(Len(path) - 1) : path[i] = GitName

\* a non-directory entry with a name in .md, not beneath .git
Qualifying(path) ==
    IsFile(path, files) /\ ~UnderGit(path) /\ HasSuffix(Base(path), DotMd)

\* C6: neither LoadNote nor the visitor is ever called for a file beneath a
\* directory named .git, for an entry whose name does not end in .md, or for
\* a directory.
C6_WalkSkipRule ==
    /\ \A i \in 1..Len(parsed) : Qualifying(parsed[i])
    /\ \A i \in 1..Len(visited) : Qualifying(visited[i].path)

\* a walk that ran to its end and called the visitor, over a store with a .md
\* file beneath .git, a file of another extension, and a directory whose
\* name ends in .md
C6_Witness ==
    /\ walkRes = Finished("none", "none")
    /\ visited # <<>>
    /\ \E p \in DOMAIN files : UnderGit(p) /\ HasSuffix(Base(p), DotMd)
    /\ \E p \in DOMAIN files : ~UnderGit(p) /\ ~HasSuffix(Base(p), DotMd)
    /\ \E p \in DOMAIN files : HasSuffix(p[Len(p) - 1], DotMd)

\* C7: once the visitor has returned a non-nil error, whatever it is, no
\* further file is parsed, the visitor is not called again, and WalkNotes
\* returns a non-nil error that wraps it.
C7_FirstVisitorErrorWins ==
    /\ \A i \in 1..(Len(visited) - 1) : visited[i].ret = "nil"
    /\ (visited # <<>> /\ visited[Len(visited)].ret # "nil") =>
          /\ parsed[Len(parsed)] = visited[Len(visited)].path
          /\ walkRes.state = "done" =>
                walkRes = Finished(visited[Len(visited)].ret, visited[Len(visited)].path)

\* the files of the store in the order filepath.Walk reaches them when
\* nothing is skipped
RECURSIVE FilesInOrder(_)
FilesInOrder(entries) ==
    IF entries = <<>> THEN <<>>
    ELSE IF IsDirIn(Head(entries), files)
         THEN FilesInOrder(Children(Head(entries), files) \o Tail(entries))
         ELSE <<Head(entries)>> \o FilesInOrder(Tail(entries))

IndexOfPath(seq, p) == CHOOSE i \in 1..Len(seq) : seq[i] = p

\* the qualifying files that precede file p in traversal order
QualifyingBefore(p) ==
    LET order == FilesInOrder(<<Root>>)
    IN  SelectSeq(SubSeq(order, 1, IndexOfPath(order, p) - 1), Qualifying)

VisitedPaths == [i \in 1..Len(visited) |-> visited[i].path]

\* C8: when LoadNote fails on a qualifying file, WalkNotes returns an error
\* wrapping the LoadNote error, and the visitor has been called exactly for
\* the qualifying files that precede the failing one in traversal order, so
\* neither for the failing file nor for any later one.
C8_ParseErrorAborts ==
    (walkRes.state = "done" /\ walkRes.err = "load") =>
        /\ parsed[Len(parsed)] = walkRes.cause
        /\ VisitedPaths = QualifyingBefore(walkRes.cause)

\* C10: every note the walk of the store root passes to the visitor has a
\* FilePath() equal to the path of the file it was loaded from.
C10_LoadedPath ==
    \A i \in 1..Len(visited) : FilePath(visited[i].note) = visited[i].path

\* every qualifying file of the store parses
AllQualifyingParse ==
    \A p \in DOMAIN files : Qualifying(p) => LoadNote(p, files).err = "none"

\* the qualifying files in traversal order
ExpectedVisits == SelectSeq(FilesInOrder(<<Root>>), Qualifying)

\* C19: in a run without traversal error, in which every qualifying file
\* parses and the visitor always returns nil, the visitor is called exactly
\* once, in traversal order and right after the successful parse of the
\* file, for each qualifying file, and WalkNotes returns nil.
C19_WalkComplete ==
    (AllQualifyingParse /\ \A i \in 1..Len(visited) : visited[i].ret = "nil") =>
        LET expected == ExpectedVisits
            seen == VisitedPaths
        IN  /\ Len(seen) <= Len(expected)
            /\ seen = SubSeq(expected, 1, Len(seen))
            /\ parsed = seen
            /\ (walkRes.state = "done" /\ walkRes.err # "traverse") =>
                  (seen = expected /\ walkRes = Finished("none", "none"))

\* a walk returned nil after two calls of the visitor, over a store that
\* also has a file beneath .git
C19_Witness ==
    /\ walkRes = Finished("none", "none")
    /\ AllQualifyingParse
    /\ Len(visited) = 2
    /\ \A i \in 1..Len(visited) : visited[i].ret = "nil"
    /\ \E p \in DOMAIN files : UnderGit(p)

(***************************************************************************)
(* SpecBody: Note.ReadBodyN on a note file of arbitrary content.           *)
(***************************************************************************)
MaxBodyLines == 5
MaxBytes == 3

BodyLines ==
    { <<>>, <<"t">>, CategoryPrefix \o <<"c">>, TagsPrefix, CreatedPrefix \o <<"1">> }

\* the note whose FilePath() is NotePath
NoteAtPath == NewNote(<<"c">>, <<>>, <<"n">>, <<>>, [sec |-> 1, nsec |-> 0]).note

InitBody ==
    /\ \E lines \in LinesUpTo(BodyLines, MaxBodyLines), finalNL \in BOOLEAN :
          files = (NotePath :> FileOf(lines, finalNL))
    /\ note = NoteAtPath
    /\ tagsArg = <<>>
    /\ fileArg = <<"n">>
    /\ newErr = "none"
    /\ written = FALSE
    /\ created = "none"
    /\ loaded = NoResult
    /\ body = NoResult
    /\ WalkIdle

ReadBodyNOp ==
    /\ body = NoResult
    /\ \E maxBytes \in 0..MaxBytes :
          LET r == ReadBodyN(note, maxBytes, files)
          IN  body' = [err |-> r.err, s |-> r.s, maxBytes |-> maxBytes]
    /\ UNCHANGED <<files, note, tagsArg, fileArg, newErr, written, created, loaded,
                   todo, visited, parsed, walkRes>>

NextBody == ReadBodyNOp

SpecBody == InitBody /\ [][NextBody]_vars

\* the file of the note as newline-separated pieces: piece k is line k
\* without its newline, and the last piece is what follows the last newline
FileData == files[FilePath(note)]
Pieces == Split(FileData, NL)

\* the offset at which piece k starts
RECURSIVE OffsetOf(_)
OffsetOf(k) == IF k = 1 THEN 0 ELSE OffsetOf(k - 1) + Len(Pieces[k - 1]) + 1

MarkerSeenBy(marker, k) == \E i \in 1..k : HasPrefix(Pieces[i], marker)
MarkersCompleteBy(k) ==
    /\ MarkerSeenBy(CategoryPrefix, k)
    /\ MarkerSeenBy(TagsPrefix, k)
    /\ MarkerSeenBy(CreatedPrefix, k)

AllMarkersOccur == MarkersCompleteBy(Len(Pieces))

\* the line that completes the three markers
CompletingLine == CHOOSE k \in 1..Len(Pieces) :
                      MarkersCompleteBy(k) /\ (k > 1 => ~MarkersCompleteBy(k - 1))

\* the non-blank lines after it
BodyStarts == {j \in (CompletingLine + 1)..Len(Pieces) : Pieces[j] # <<>>}

\* the body: the content from the first non-blank line after the completing
\* line on
BodyText ==
    IF BodyStarts = {} THEN <<>>
    ELSE SubSeq(FileData, OffsetOf(SetMin(BodyStarts)) + 1, Len(FileData))

\* C9: for a file in which the three markers occur, ReadBodyN(maxBytes)
\* returns the first min(maxBytes, L) bytes of the body of length L, the first
\* non-blank line included whether or not it is the last line and whether or
\* not it ends with a newline.
C9_BodyPrefix ==
    (body # NoResult /\ AllMarkersOccur) =>
        /\ body.err = "none"
        /\ body.s = SubSeq(BodyText, 1, Min(body.maxBytes, Len(BodyText)))

\* the same notions for given pieces ps of the data: the offset at which
\* piece k starts, the line that completes the three markers, and the
\* non-blank lines after it that end with a newline, of which the first is
\* the line ReadBodyN retains
RECURSIVE OffsetIn(_, _)
OffsetIn(ps, k) == IF k = 1 THEN 0 ELSE OffsetIn(ps, k - 1) + Len(ps[k - 1]) + 1

SeenIn(ps, marker, k) == \E i \in 1..k : HasPrefix(ps[i], marker)

CompleteIn(ps, k) ==
    SeenIn(ps, CategoryPrefix, k) /\ SeenIn(ps, TagsPrefix, k) /\ SeenIn(ps, CreatedPrefix, k)

CompletingIn(ps) == SetMin({k \in 1..Len(ps) : CompleteIn(ps, k)})

RetainedIn(ps) == {j \in (CompletingIn(ps) + 1)..(Len(ps) - 1) : ps[j] # <<>>}

\* C16: a successful ReadBodyN(maxBytes) returns at most maxBytes bytes; when
\* the first retained line, newline included, is longer than maxBytes, the
\* result is its first maxBytes bytes; otherwise the result is that line and
\* what follows it up to maxBytes bytes in all, and the end of the file
\* reached before the budget is used up is not an error.
C16_ByteBudget ==
    body # NoResult =>
        LET data == FileData
            ps == Split(data, NL)
            first == SetMin(RetainedIn(ps))
            line == ps[first] \o <<NL>>
            text == SubSeq(data, OffsetIn(ps, first) + 1, Len(data))
        IN  /\ body.err = "none" => Len(body.s) <= body.maxBytes
            /\ CompleteIn(ps, Len(ps)) =>
                  /\ body.err = "none"
                  /\ RetainedIn(ps) # {} =>
                        IF Len(line) > body.maxBytes
                        THEN body.s = SubSeq(line, 1, body.maxBytes)
                        ELSE body.s = SubSeq(text, 1, Min(body.maxBytes, Len(text)))

\* a read whose first retained line is longer than a positive budget, and
\* which returned as many bytes as the budget
C16_Witness ==
    /\ body # NoResult
    /\ body.err = "none"
    /\ AllMarkersOccur
    /\ RetainedIn(Pieces) # {}
    /\ body.maxBytes > 0
    /\ Len(Pieces[SetMin(RetainedIn(Pieces))]) + 1 > body.maxBytes
    /\ Len(body.s) = body.maxBytes

\* C17: ReadBodyN fails with the metadata error if and only if the end of
\* the file is reached before a line starting with each of the three markers
\* has been read; when the completing line is the last line, with or without
\* a newline after it, ReadBodyN succeeds and returns the empty body.
C17_MetadataIncomplete ==
    body # NoResult =>
        LET ps == Pieces
            n == Len(ps)
            k == CompletingIn(ps)
        IN  /\ body.err = "metadata" <=> ~CompleteIn(ps, n)
            /\ (CompleteIn(ps, n) /\ (k = n \/ (k = n - 1 /\ ps[n] = <<>>)))
                  => (body.err = "none" /\ body.s = <<>>)

\* the completing line is the last line and has no newline after it, and
\* ReadBodyN returned the empty body for a positive budget
C17_Witness ==
    /\ body # NoResult
    /\ AllMarkersOccur
    /\ CompletingLine = Len(Pieces)
    /\ body.maxBytes > 0
    /\ body.err = "none"
    /\ body.s = <<>>

(***************************************************************************)
(* SpecFile: one file-name hint, given to NewNote; the note is created in  *)
(* an empty store, or its File is given to NewNote again as the hint.      *)
(***************************************************************************)
MaxHint == 3

HintChars == {" ", ".", "m", "d", "n"}

HintInputs == UNION { [1..k -> HintChars] : k \in 0..MaxHint }

InitFile ==
    /\ fileArg \in HintInputs
    /\ files = << >>
    /\ note = NoNote
    /\ tagsArg = <<>>
    /\ newErr = "none"
    /\ written = FALSE
    /\ created = "none"
    /\ loaded = NoResult
    /\ body = NoResult
    /\ WalkIdle

NewNoteFileOp ==
    /\ note = NoNote /\ newErr = "none"
    /\ \E title \in {<<>>, <<"t">>}, now \in Instants :
          LET r == NewNote(<<"c">>, tagsArg, fileArg, title, now)
          IN  note' = r.note /\ newErr' = r.err
    /\ UNCHANGED <<files, tagsArg, fileArg, written, created, loaded, body, todo, visited, parsed, walkRes>>

\* NewNote again, with the File of the current note as the hint
RenewNoteOp ==
    /\ note # NoNote /\ ~written
    /\ \E now \in Instants :
          LET r == NewNote(note.Category, tagsArg, note.File, note.Title, now)
          IN  note' = r.note /\ newErr' = r.err
    /\ fileArg' = note.File
    /\ UNCHANGED <<files, tagsArg, written, created, loaded, body, todo, visited, parsed, walkRes>>

CreateFileOp ==
    /\ note # NoNote /\ created = "none"
    /\ LET r == Create(note, files)
       IN  /\ files' = r.files
           /\ created' = r.err
           /\ written' = (r.err = "none")
    /\ UNCHANGED <<note, tagsArg, fileArg, newErr, loaded, body, todo, visited, parsed, walkRes>>

NextFile == NewNoteFileOp \/ RenewNoteOp \/ CreateFileOp

SpecFile == InitFile /\ [][NextFile]_vars

\* the hint with a hyphen at every position of a space, and .md after it
\* unless its last three characters are already those
ExpectedFile(h) ==
    LET r == [i \in 1..Len(h) |-> IF h[i] = " " THEN "-" ELSE h[i]]
        n == Len(r)
    IN  IF n >= 3 /\ r[n - 2] = "." /\ r[n - 1] = "m" /\ r[n] = "d"
        THEN r
        ELSE [i \in 1..(n + 3) |-> IF i <= n THEN r[i] ELSE <<".", "m", "d">>[i - n]]

\* C11: for a non-empty hint h, the File of the note NewNote returns has no
\* space, ends with .md, and is h with every space replaced by a hyphen,
\* followed by .md only if that did not already end with .md; giving the File
\* back to NewNote as the hint yields the same File.
C11_FileNormalization ==
    /\ [](note # NoNote =>
            /\ \A i \in 1..Len(note.File) : note.File[i] # " "
            /\ HasSuffix(note.File, DotMd)
            /\ note.File = ExpectedFile(fileArg))
    /\ [][RenewNoteOp => note'.File = note.File]_vars

\* a hint with a space that already ends with .md has been normalized, and
\* the result has been given to NewNote again
C11_Witness ==
    /\ note # NoNote
    /\ fileArg = <<"-", ".", "m", "d">>
    /\ note.File = fileArg

\* C18: the file Create writes for a note NewNote returned has a non-empty
\* first line (the title, or the file name without its extension when the
\* title is empty), a second line of = characters only, as long as the first
\* and at least 1 long, then the Category, Tags and Created lines in that
\* order and one blank line.
C18_HeaderTitleNonEmpty ==
    written =>
        /\ Len(Pieces) = 7
        /\ Pieces[1] # <<>>
        /\ Pieces[1] = (IF note.Title # <<>> THEN note.Title
                        ELSE SubSeq(note.File, 1, Len(note.File) - Len(DotMd)))
        /\ AllEq(Pieces[2])
        /\ Len(Pieces[2]) = Len(Pieces[1])
        /\ Len(Pieces[2]) >= 1
        /\ Pieces[3] = CategoryPrefix \o note.Category
        /\ HasPrefix(Pieces[4], TagsPrefix)
        /\ HasPrefix(Pieces[5], CreatedPrefix)
        /\ Pieces[6] = <<>>
        /\ Pieces[7] = <<>>

(***************************************************************************)
(* SpecScan: LoadNote and Note.ReadBodyN on the same note file: arbitrary  *)
(* lines, then the three metadata lines in some order, then what an editor *)
(* may have added after them.                                              *)
(***************************************************************************)
MaxPre == 3

PreLines ==
    { <<>>, <<"t">>, <<"=">>, CategoryPrefix \o <<"d">>, TagsPrefix \o <<" ", "a">>,
      CreatedPrefix \o <<"0">> }

CoreLines == { CategoryPrefix \o <<"c">>, TagsPrefix, CreatedPrefix \o <<"1">> }

\* the orderings of the three metadata lines
ScanCores == { p \in [1..3 -> CoreLines] : \A i, j \in 1..3 : p[i] = p[j] => i = j }

ScanTails ==
    { <<>>, << <<"b">> >>, << CreatedPrefix \o <<"2">> >>,
      << CategoryPrefix \o <<"d">>, CreatedPrefix \o <<"x">> >> }

InitScan ==
    /\ \E pre \in LinesUpTo(PreLines, MaxPre), core \in ScanCores, tail \in ScanTails,
          finalNL \in BOOLEAN :
          files = (NotePath :> FileOf(pre \o core \o tail, finalNL))
    /\ note = NoteAtPath
    /\ tagsArg = <<>>
    /\ fileArg = <<"n">>
    /\ newErr = "none"
    /\ written = FALSE
    /\ created = "none"
    /\ loaded = NoResult
    /\ body = NoResult
    /\ WalkIdle

LoadScanOp ==
    /\ loaded = NoResult
    /\ loaded' = LoadNote(FilePath(note), files)
    /\ UNCHANGED <<files, note, tagsArg, fileArg, newErr, written, created, body, todo, visited, parsed, walkRes>>

ReadScanOp ==
    /\ body = NoResult
    /\ LET r == ReadBodyN(note, MaxBytes, files)
       IN  body' = [err |-> r.err, s |-> r.s, maxBytes |-> MaxBytes]
    /\ UNCHANGED <<files, note, tagsArg, fileArg, newErr, written, created, loaded,
                   todo, visited, parsed, walkRes>>

NextScan == LoadScanOp \/ ReadScanOp

SpecScan == InitScan /\ [][NextScan]_vars

\* the line right before the first bar if there is one and it is not empty
ExpectedLoadTitle ==
    IF FirstBar > 1 /\ FileLines[FirstBar - 1] # <<>> THEN FileLines[FirstBar - 1] ELSE NoTitle

CreatedOf(l) == ParseRFC3339(TrimSpace(SubSeq(l, Len(CreatedPrefix) + 1, Len(l)))).t

\* in the lines ls with first bar at line b: the last line up to line k, after
\* the bar, that satisfies P
LastLine(ls, b, P(_), k) == SetMax({i \in (b + 1)..k : P(ls[i])})

\* after line k, Category, Tags, Created and Title are all set
CompleteAt(ls, b, k) ==
    /\ \E i \in (b + 1)..k : IsCategoryLine(ls[i])
    /\ \E i \in (b + 1)..k : IsTagsLine(ls[i])
    /\ \E i \in (b + 1)..k : IsCreatedLine(ls[i])
    /\ ~IsZero(CreatedOf(ls[LastLine(ls, b, IsCreatedLine, k)]))

\* the first such line
StopLine(ls, b) == SetMin({k \in (b + 1)..Len(ls) : CompleteAt(ls, b, k)})

\* there is such a line, and no line that fails the load up to it
ReachesStop(ls, b) ==
    /\ \E k \in (b + 1)..Len(ls) : CompleteAt(ls, b, k)
    /\ \A i \in (b + 1)..StopLine(ls, b) :
          ~MismatchingLine(ls[i]) /\ ~MalformedCreatedLine(ls[i])

\* C14: LoadNote stops reading at the first line after which Category, Tags,
\* Created (non-zero) and Title are all set, and the note it returns is
\* determined by the parent directory name and the lines up to that line:
\* whatever follows causes no error and changes no field.
C14_ShortCircuit ==
    (loaded # NoResult /\ HasBar) =>
        LET ls == FileLines
            b == FirstBar
            k == StopLine(ls, b)
            tagsLine == ls[LastLine(ls, b, IsTagsLine, k)]
        IN  ReachesStop(ls, b) =>
              /\ loaded.err = "none"
              /\ loaded.read = k
              /\ loaded.note =
                    [Category |-> ParentName,
                     Tags |-> ExpectedTags(SubSeq(tagsLine, Len(TagsPrefix) + 1, Len(tagsLine))),
                     TagsNil |-> FALSE,
                     Created |-> CreatedOf(ls[LastLine(ls, b, IsCreatedLine, k)]),
                     File |-> Base(NotePath),
                     Title |-> IF b > 1 /\ ls[b - 1] # <<>> THEN ls[b - 1] ELSE NoTitle]

\* a note was loaded from a file with a mismatching Category line and a
\* malformed Created line after the line at which LoadNote stopped
C14_Witness ==
    /\ loaded # NoResult
    /\ loaded.err = "none"
    /\ \E i \in (loaded.read + 1)..Len(FileLines) : MismatchingLine(FileLines[i])
    /\ \E i \in (loaded.read + 1)..Len(FileLines) : MalformedCreatedLine(FileLines[i])

\* the offset right after line k of the file
EndOfLine(k) == Min(Len(FileData), OffsetOf(k) + Len(Pieces[k]) + 1)

\* C20: for a file LoadNote accepts, ReadBodyN does not fail, and the text
\* it returns lies in the file after the line at which LoadNote stopped.
C20_ScannersAgree ==
    (loaded # NoResult /\ loaded.err = "none" /\ body # NoResult) =>
        /\ body.err = "none"
        /\ \E o \in EndOfLine(loaded.read)..Len(FileData) :
              /\ o + Len(body.s) <= Len(FileData)
              /\ body.s = SubSeq(FileData, o + 1, o + Len(body.s))

(***************************************************************************)
(* SpecOrder: LoadNote on a file made of a title line, a bar and the three *)
(* metadata lines in some order, other lines interleaved.                  *)
(***************************************************************************)
MaxFill == 1

FillLines == { <<>>, <<"x">> }

OrderTitles == { <<>>, <<"t">> }

\* well-formed timestamps: the zero instant, and another
OrderStamps == { <<"0">>, <<"1">> }

OrderLines(stamp) ==
    { CategoryPrefix \o <<"c">>, TagsPrefix \o <<" ", "a">>, CreatedPrefix \o stamp }

InitOrder ==
    /\ \E title \in OrderTitles, stamp \in OrderStamps, finalNL \in BOOLEAN :
       \E p \in [1..3 -> OrderLines(stamp)], fill \in [1..3 -> LinesUpTo(FillLines, MaxFill)] :
          /\ \A i, j \in 1..3 : p[i] = p[j] => i = j
          /\ files = (NotePath :>
                        FileOf(<<title, <<"=">>>> \o fill[1] \o <<p[1]>> \o fill[2] \o <<p[2]>>
                               \o fill[3] \o <<p[3]>>, finalNL))
    /\ note = NoNote
    /\ tagsArg = <<>>
    /\ fileArg = <<>>
    /\ newErr = "none"
    /\ written = FALSE
    /\ created = "none"
    /\ loaded = NoResult
    /\ body = NoResult
    /\ WalkIdle

NextOrder == LoadFileOp

SpecOrder == InitOrder /\ [][NextOrder]_vars

\* the line of the file that starts with the given marker
LineWith(marker) == CHOOSE i \in 1..Len(FileLines) : HasPrefix(FileLines[i], marker)

\* the note made of the file's ingredients, whatever their order
IngredientsNote ==
    LET ls == FileLines
        t == ls[LineWith(TagsPrefix)]
    IN  [Category |-> ParentName,
         Tags |-> ExpectedTags(SubSeq(t, Len(TagsPrefix) + 1, Len(t))),
         TagsNil |-> FALSE,
         Created |-> CreatedOf(ls[LineWith(CreatedPrefix)]),
         File |-> Base(NotePath),
         Title |-> IF ls[1] = <<>> THEN NoTitle ELSE ls[1]]

\* C15 as stated: whatever the well-formed timestamp, LoadNote succeeds and
\* returns the note made of the ingredients, for every ordering.
C15_AnyOrderLoads ==
    loaded # NoResult => (loaded.err = "none" /\ loaded.note = IngredientsNote)

\* C15, amended: when the timestamp of the Created line is not the zero
\* instant, LoadNote succeeds and returns the same Category, Tags, Created and
\* Title for all six orderings of the three metadata lines, also with other
\* lines interleaved.
C15_NonZeroOrderLoads ==
    (loaded # NoResult /\ ~IsZero(CreatedOf(FileLines[LineWith(CreatedPrefix)]))) =>
        (loaded.err = "none" /\ loaded.note = IngredientsNote)

\* a note was loaded from a file with the lines in the order Created, Tags,
\* Category, with another line between them
C15_Witness ==
    /\ loaded # NoResult
    /\ loaded.err = "none"
    /\ LineWith(CreatedPrefix) + 1 < LineWith(TagsPrefix)
    /\ LineWith(TagsPrefix) + 1 < LineWith(CategoryPrefix)

====
